---- MODULE Spec2Model ----
(***************************************************************************)
(* Model of the rollout worker of rlgraph/execution/ray/ray_worker.py      *)
(* (RayWorker): one worker owning one environment and one agent, running   *)
(* execute_and_get_timesteps calls one after the other, and reporting      *)
(* get_workload_statistics in between; and of the executor of              *)
(* yarl/execution/ray/ray_executor.py (RayExecutor) that creates workers.  *)
(*                                                                         *)
(* A call is modelled step by step (pc): its entry, each iteration of the   *)
(* outer while loop, each decision point of the inner loop (action         *)
(* selection, frameskip loop, bookkeeping) and the code after the loop.    *)
(***************************************************************************)
EXTENDS Integers, Sequences, FiniteSets, TLC

\* ------------------------------------------------------------------ bounds
\* Number of calls to execute_and_get_timesteps in one behaviour.
MaxCalls == 2
\* Largest num_timesteps a caller passes.
MaxTimesteps == 2
\* The positive max_timesteps_per_episode a caller passes (0 = unlimited).
MaxEpisodeLimit == 1
\* The n_step_adjustment of a worker_spec that sets one (the default is 1).
MaxNStep == 2

\* agent_config["discount"] as the fraction DiscountNum / DiscountDen.
DiscountNum == 9
DiscountDen == 10
\* 1 / SMALL_NUMBER: importance weights are counted in units of SMALL_NUMBER.
SmallNumberInv == 1000000

\* Longest trajectory and largest n_step_adjustment given to
\* _process_sample_if_necessary when it is checked on its own.
MaxBatchLen == 5
MaxBatchNStep == 4
\* The rewards of the transitions of such a trajectory.
BatchRewardChoices == {1, 2}

\* Longest sequence_indices given to calc_sequence_decays.
MaxSeqLen == 5
\* Number of calls to execute_and_get_timesteps on the workers of a pool.
MaxPoolCalls == 2
\* Largest num_actors given to create_remote_workers.
MaxActors == 2
\* Agents and workers constructed from one pair of configuration dicts
MaxBuilds == 2

NumTimestepsChoices == 0..MaxTimesteps
EpisodeLimitChoices == {0, MaxEpisodeLimit}
\* The frameskip constructor argument: its default, and a value that repeats actions.
FrameskipChoices == {1, 2}
\* worker_spec: the defaults of lines 63-64, and a spec that sets both entries.
WorkerSpecChoices == {[n_step_adjustment |-> 1, worker_computes_weights |-> TRUE],
                      [n_step_adjustment |-> MaxNStep, worker_computes_weights |-> FALSE]}

VARIABLES
    \* --- environment and agent (external collaborators)
    envClock,          \* number of reset/step calls so far; the observation it returns
    envDone,           \* the last step returned terminal and no reset followed
    envResets,         \* number of environment.reset() calls
    agentResets,       \* number of agent.reset() calls
    agentUpdates,      \* number of agent.update() calls
    \* --- worker fields (self.*)
    worker_frameskip, n_step_adjustment, worker_computes_weights,
    episode_rewards, episode_timesteps,
    total_worker_steps, self_episodes_executed,
    sample_steps, sample_times, sample_env_frames,
    last_state, last_ep_timestep, last_ep_reward, last_terminal,
    \* --- arguments and locals of execute_and_get_timesteps
    pc,
    num_timesteps, max_timesteps_per_episode, break_on_terminal,
    timesteps_executed, episodes_executed, env_frames,
    states, actions, rewards, terminals,
    break_loop, next_state, state,
    episode_reward, episode_timestep, terminal,
    \* --- what the callers got back
    callResult,        \* "none", "ok" or the exception raised by the last call
    callsDone,         \* calls to execute_and_get_timesteps that returned or raised
    sample,            \* the last returned EnvironmentSample
    stats,             \* last result of get_workload_statistics
    \* --- history variables used by the properties
    stepLog,           \* <<action, reward, terminal>> of each env step of the last decision point
    epLog,             \* per entry of episode_rewards: the true totals of the episode so far
    trueEpReward,      \* sum of rewards since the last environment reset
    trueEpSteps,       \* decision points since the last environment reset
    midSkipTerminal,   \* a terminal cut a frameskip loop short in this call
    steppedWhenDone,   \* the environment was stepped after a terminal without a reset
    episodesAtCallStart, \* Len(episode_rewards) when the current call started
    limitsUsed,        \* the max_timesteps_per_episode values the calls so far passed
    \* --- _process_sample_if_necessary applied on its own (specification SpecBatch)
    psInput,           \* its arguments and the worker's n_step_adjustment / computes flag
    psOutput,          \* what it returned
    \* --- RayExecutor (specification SpecExecutor)
    cluster_spec,      \* self.cluster_spec
    remote_workers,    \* the list create_remote_workers returned last
    execCall,          \* the executor method called last
    execResult,        \* what it returned or raised
    \* --- configuration dicts handed to construction (specification SpecConfig)
    agent_config,      \* the agent_config dict object, as it is now
    worker_spec,       \* the worker_spec dict object, as it is now
    passedConfig,      \* both dicts as the caller filled them
    built,             \* the outcome of every agent / worker construction so far
    \* --- SequenceHelper.calc_sequence_decays (specification SpecSeq)
    sdInput,           \* backend, sequence_indices and decay
    sdOutput,          \* the two tensors it returned
    \* --- a pool of workers (specification SpecPool)
    policy_weights,    \* the policy parameters of the worker's agent
    active,            \* the worker whose fields the variables above hold
    parked             \* per worker of the pool: the fields of a worker that is not active

envVars == <<envClock, envDone, envResets, agentResets, agentUpdates>>
configVars == <<worker_frameskip, n_step_adjustment, worker_computes_weights>>
fieldVars == <<episode_rewards, episode_timesteps, total_worker_steps,
               self_episodes_executed, sample_steps, sample_times, sample_env_frames,
               last_state, last_ep_timestep, last_ep_reward, last_terminal>>
argVars == <<num_timesteps, max_timesteps_per_episode, break_on_terminal>>
localVars == <<timesteps_executed, episodes_executed, env_frames, states, actions, rewards,
               terminals, break_loop, next_state, state, episode_reward, episode_timestep,
               terminal>>
outVars == <<callResult, callsDone, sample, stats>>
histVars == <<stepLog, epLog, trueEpReward, trueEpSteps, midSkipTerminal, steppedWhenDone,
              episodesAtCallStart>>
pureVars == <<psInput, psOutput>>
workerVars == <<envVars, configVars, fieldVars, argVars, localVars, outVars, histVars,
                limitsUsed, pc>>
executorVars == <<cluster_spec, remote_workers, execCall, execResult>>
seqVars == <<sdInput, sdOutput>>
poolVars == <<policy_weights, active, parked>>
configDictVars == <<agent_config, worker_spec, passedConfig, built>>
auxVars == <<executorVars, seqVars, poolVars, configDictVars>>
vars == <<workerVars, pureVars, auxVars>>

\* ------------------------------------------------------------------ helpers
RECURSIVE SumSeq(_)
SumSeq(s) == IF s = <<>> THEN 0 ELSE Head(s) + SumSeq(Tail(s))

RECURSIVE MinSeq(_)
MinSeq(s) == IF Len(s) = 1 THEN s[1]
             ELSE LET m == MinSeq(Tail(s)) IN IF s[1] < m THEN s[1] ELSE m

RECURSIVE MaxSeq(_)
MaxSeq(s) == IF Len(s) = 1 THEN s[1]
             ELSE LET m == MaxSeq(Tail(s)) IN IF s[1] > m THEN s[1] ELSE m

RECURSIVE Pow(_, _)
Pow(b, e) == IF e = 0 THEN 1 ELSE b * Pow(b, e - 1)

\* Mutant of Abs: the sign is kept.
AbsKeepsSign(x) == x

Abs(x) == IF x < 0 THEN -x ELSE x

Last(s) == s[Len(s)]

\* np.zeros_like(state): the all-zero placeholder observation.
ZerosLike == 0

\* The environment's reward for the step that brings it to clock c.
EnvReward(c) == 1 + (c % 2)

\* agent.get_action(..., extra_returns="preprocessed_states") and
\* agent.preprocess_states: the preprocessed state (never the zero placeholder).
Preprocess(s) == 2 * s

\* The action the agent picks in state s.
Policy(s) == s % 2

\* ray_compress(state): a lossless encoding of one state.
RayCompress(s) == 3 * s + 1

\* The per-item loss agent.update returns for a transition with reward r.
LossPerItem(r) == (r % 3) - 1

NoSample == [status |-> "none"]
NoStats == [status |-> "none"]

\* ------------------------------------------------------------------ conditions of the loops
\* Mutant of LoopCondition: the loop runs once more.
LoopConditionOffByOne(te, n) == te <= n

\* while timesteps_executed < num_timesteps
LoopCondition(te, n) == te < n

\* Mutant of NeedsReset: an episode finished in the current call is not looked at.
NeedsResetLastTerminalOnly(lt, ee) == lt

\* if self.last_terminal is True or episodes_executed > 0
NeedsReset(lt, ee) == lt \/ ee > 0

\* Mutant of SkipContinues: the loop does not break at a terminal.
SkipIgnoresTerminal(term, done, fs) == done < fs

\* for _ in range(self.worker_frameskip): ... if terminal: break
SkipContinues(term, done, fs) == ~term /\ done < fs

\* if terminal or (0 < num_timesteps <= timesteps_executed) or
\*    (0 < max_timesteps_per_episode <= episode_timestep)
EpisodeBoundary(term, n, te, m, et) ==
    term \/ (0 < n /\ n <= te) \/ (0 < m /\ m <= et)

\* Mutant of BreakLoop: every terminal ends the call.
BreakLoopAlways(term, b) == term

\* Mutant of BreakLoop: no terminal ends the call.
BreakLoopNever(term, b) == FALSE

\* if terminal and break_on_terminal: break_loop = True
BreakLoop(term, b) == term /\ b

\* The frameskip loop of one decision point, lines 172-178. f is the loop state
\* [action, done, terminal, reward, next_state, clock, log, afterDone, envDone];
\* the environment returns terminal at its k-th step (never if k = 0), and log
\* keeps <<action, step_reward, terminal>> of each environment.step call.
RECURSIVE FrameskipLoop(_, _, _)
FrameskipLoop(f, fs, k) ==
    IF SkipContinues(f.terminal, f.done, fs)
    THEN LET c == f.clock + 1
             t == (f.done + 1 = k)
         IN  FrameskipLoop([action |-> f.action,
                            done |-> f.done + 1,
                            terminal |-> t,
                            reward |-> f.reward + EnvReward(c),
                            next_state |-> c,
                            clock |-> c,
                            log |-> Append(f.log, <<f.action, EnvReward(c), t>>),
                            afterDone |-> f.afterDone \/ f.envDone,
                            envDone |-> t \/ f.envDone], fs, k)
    ELSE f

\* (time.monotonic() - start): the clock ticks once per two environment frames.
ClockTick == 1000
MonotonicElapsed(frames) == (frames \div 2) * ClockTick

\* Mutant of TotalTime: no epsilon is substituted.
TotalTimeRaw(elapsed) == elapsed

\* (time.monotonic() - start) or 1e-10, in units of 1e-10 s.
TotalTime(elapsed) == IF elapsed = 0 THEN 1 ELSE elapsed

\* Internal frameskip of the environment: env_spec.get("frameskip", 1).
EnvFrameSkip == 1

\* ------------------------------------------------------------------ _process_sample_if_necessary
\* Rewards of a batch with n-step adjustment n are counted in units of
\* 1 / RewardScale(n), so that discount ** j * reward stays an integer.
RewardScale(n) == IF n > 1 THEN Pow(DiscountDen, n - 1) ELSE 1

\* discount ** j * r in units of 1 / RewardScale(n)
Discounted(r, j, n) == Pow(DiscountNum, j) * Pow(DiscountDen, n - 1 - j) * r

\* The inner loop of lines 293-299 for index i, from offset j on: st and rw are
\* the values of states[i] and rewards[i] so far.
RECURSIVE NStepFold(_, _, _, _, _, _, _, _)
NStepFold(S, R, T, n, i, j, st, rw) ==
    IF j > n - 1 THEN [state |-> st, reward |-> rw]
    ELSE LET st2 == S[i + j]
             rw2 == rw + Discounted(R[i + j], j, n)
         IN  IF T[i + j] THEN [state |-> st2, reward |-> rw2]
             ELSE NStepFold(S, R, T, n, i, j + 1, st2, rw2)

\* Lines 289-299: the arrays after the loop over i (before truncation).
NStepAdjusted(S, R, T, n) ==
    LET L == Len(R)
        folded(i) == NStepFold(S, R, T, n, i, 1, S[i], Discounted(R[i], 0, n))
        touched(i) == i <= L - n + 1 /\ ~T[i]
    IN  [states |-> [i \in 1..L |-> IF touched(i) THEN folded(i).state ELSE S[i]],
         rewards |-> [i \in 1..L |-> IF touched(i) THEN folded(i).reward
                                     ELSE Discounted(R[i], 0, n)]]

\* del arr[k:]
DelFrom(arr, k) ==
    IF k >= 0 THEN SubSeq(arr, 1, IF k < Len(arr) THEN k ELSE Len(arr))
    ELSE SubSeq(arr, 1, IF Len(arr) + k > 0 THEN Len(arr) + k ELSE 0)

\* if self.n_step_adjustment > 1
NStepApplies(n) == n > 1

\* Mutant of NewLen: one transition too many is cut.
NewLenOffByOne(len, n) == len - n

\* new_len = len(states) - self.n_step_adjustment + 1
NewLen(len, n) == len - n + 1

\* Mutant of Truncate: terminals is missing from the list of truncated lists.
TruncateAllButTerminals(arrs, k) ==
    [f \in DOMAIN arrs |-> IF f = "terminals" THEN arrs[f] ELSE DelFrom(arrs[f], k)]

\* for arr in [states, actions, rewards, next_states, terminals]: del arr[new_len:]
\* arrs is the record of the five lists.
Truncate(arrs, k) == [f \in DOMAIN arrs |-> DelFrom(arrs[f], k)]

\* np.ones_like(rewards), in units of SMALL_NUMBER.
OnesLike(r) == [i \in 1..Len(r) |-> SmallNumberInv]

\* np.abs(loss_per_item) + SMALL_NUMBER for the losses the agent returns for
\* the rewards r of the batch it was given.
ComputedWeights(r) == [i \in 1..Len(r) |-> Abs(LossPerItem(r[i])) * SmallNumberInv + 1]

\* Mutant of SampleBatch: the states of the dict are built from next_states.
SampleBatchOfNextStates(s, a, r, ns, t, w) ==
    [states |-> [i \in 1..Len(ns) |-> RayCompress(ns[i])],
     actions |-> a,
     rewards |-> r,
     terminals |-> t,
     importance_weights |-> w]

\* The returned dict, lines 325-331.
SampleBatch(s, a, r, ns, t, w) ==
    [states |-> [i \in 1..Len(s) |-> RayCompress(s[i])],
     actions |-> a,
     rewards |-> r,
     terminals |-> t,
     importance_weights |-> w]

\* Lines 288-331. `update` holds the batch handed to agent.update (none if the
\* worker does not compute weights); `lists` are the five lists as the function
\* leaves them.
ProcessSampleIfNecessary(S, A, R, NS, T, n, computes) ==
    LET raw == [states |-> S, actions |-> A, rewards |-> R, next_states |-> NS,
                terminals |-> T]
        adj == NStepAdjusted(S, R, T, n)
        lists == IF NStepApplies(n)
                 THEN Truncate([raw EXCEPT !.states = adj.states, !.rewards = adj.rewards],
                               NewLen(Len(S), n))
                 ELSE raw
        ones == OnesLike(lists.rewards)
        weights == IF computes THEN ComputedWeights(lists.rewards) ELSE ones
    IN  [sample_batch |-> SampleBatch(lists.states, lists.actions, lists.rewards,
                                      lists.next_states, lists.terminals, weights),
         batch_size |-> Len(lists.rewards),
         lists |-> lists,
         update |-> IF computes
                    THEN <<[states |-> lists.states, actions |-> lists.actions,
                            rewards |-> lists.rewards, terminals |-> lists.terminals,
                            next_states |-> lists.next_states,
                            importance_weights |-> ones]>>
                    ELSE <<>>]

\* Mutant of FinalNextState: no zero placeholder after a terminal.
FinalNextStateNoPlaceholder(term, ns) == Preprocess(ns)

\* Lines 210-220: the remaining final state, and next_states = states[1:] + [it].
FinalNextState(term, ns) == IF term THEN ZerosLike ELSE Preprocess(ns)

NextStates(S, final) == Append(Tail(S), final)

\* ------------------------------------------------------------------ construction
\* RayWorker.__init__, lines 52-89: everything but the three configuration fields.
FieldsInit ==
    /\ envClock = 1 /\ envDone = FALSE /\ envResets = 1 /\ agentResets = 1
    /\ agentUpdates = 0
    /\ episode_rewards = <<>> /\ episode_timesteps = <<>>
    /\ total_worker_steps = 0 /\ self_episodes_executed = 0
    /\ sample_steps = <<>> /\ sample_times = <<>> /\ sample_env_frames = <<>>
    /\ last_state = 1
    /\ last_ep_timestep = 0 /\ last_ep_reward = 0 /\ last_terminal = FALSE
    /\ pc = "idle"
    /\ num_timesteps = 0 /\ max_timesteps_per_episode = 0 /\ break_on_terminal = FALSE
    /\ timesteps_executed = 0 /\ episodes_executed = 0 /\ env_frames = 0
    /\ states = <<>> /\ actions = <<>> /\ rewards = <<>> /\ terminals = <<>>
    /\ break_loop = FALSE /\ next_state = ZerosLike /\ state = ZerosLike
    /\ episode_reward = 0 /\ episode_timestep = 0 /\ terminal = FALSE
    /\ callResult = "none" /\ callsDone = 0
    /\ sample = NoSample /\ stats = NoStats
    /\ stepLog = <<>> /\ epLog = <<>>
    /\ trueEpReward = 0 /\ trueEpSteps = 0
    /\ midSkipTerminal = FALSE /\ steppedWhenDone = FALSE
    /\ episodesAtCallStart = 0
    /\ limitsUsed = {}

\* No configuration dict is held.
NoConfigDicts ==
    /\ agent_config = NoSample /\ worker_spec = NoSample
    /\ passedConfig = NoSample /\ built = <<>>

\* No executor call was made, no SequenceHelper is used and the worker is on
\* its own, its agent with the policy parameters it was built with.
NoExecutor ==
    /\ NoConfigDicts
    /\ policy_weights = 0 /\ active = 1 /\ parked = <<>>
    /\ sdInput = NoSample /\ sdOutput = NoSample
    /\ cluster_spec = "none" /\ remote_workers = <<>>
    /\ execCall = [method |-> "none"] /\ execResult = "none"

\* RayWorker.__init__, lines 52-89.
Init ==
    /\ NoExecutor
    /\ FieldsInit
    /\ worker_frameskip \in FrameskipChoices
    /\ \E ws \in WorkerSpecChoices :
          /\ n_step_adjustment = ws.n_step_adjustment
          /\ worker_computes_weights = ws.worker_computes_weights
    /\ psInput = NoSample /\ psOutput = NoSample

\* ------------------------------------------------------------------ execute_and_get_timesteps
\* Entry: lines 133-144.
CallStart(n, m, b) ==
    /\ UNCHANGED <<pureVars, auxVars>>
    /\ limitsUsed' = limitsUsed \cup {m}
    /\ pc = "idle" /\ callsDone < MaxCalls
    /\ num_timesteps' = n /\ max_timesteps_per_episode' = m /\ break_on_terminal' = b
    /\ timesteps_executed' = 0 /\ episodes_executed' = 0 /\ env_frames' = 0
    /\ states' = <<>> /\ actions' = <<>> /\ rewards' = <<>> /\ terminals' = <<>>
    /\ break_loop' = FALSE /\ next_state' = ZerosLike
    /\ callResult' = "none" /\ sample' = NoSample /\ stats' = NoStats
    /\ stepLog' = <<>> /\ midSkipTerminal' = FALSE
    /\ episodesAtCallStart' = Len(episode_rewards)
    /\ pc' = "while"
    /\ UNCHANGED <<envVars, configVars, fieldVars, state, episode_reward, episode_timestep,
                   terminal, callsDone, epLog, trueEpReward, trueEpSteps, steppedWhenDone>>

\* One test of the outer loop that enters the body: lines 146-163.
OuterIteration ==
    /\ UNCHANGED <<limitsUsed, pureVars, auxVars>>
    /\ pc = "while" /\ ~break_loop /\ LoopCondition(timesteps_executed, num_timesteps)
    /\ IF NeedsReset(last_terminal, episodes_executed)
       THEN /\ envClock' = envClock + 1 /\ envDone' = FALSE
            /\ envResets' = envResets + 1 /\ agentResets' = agentResets + 1
            /\ state' = envClock + 1
            /\ last_ep_reward' = 0
            /\ episode_reward' = 0 /\ episode_timestep' = 0
            /\ trueEpReward' = 0 /\ trueEpSteps' = 0
            /\ UNCHANGED agentUpdates
       ELSE /\ state' = last_state
            /\ episode_reward' = last_ep_reward
            /\ episode_timestep' = last_ep_timestep
            /\ UNCHANGED <<envVars, last_ep_reward, trueEpReward, trueEpSteps>>
    /\ terminal' = FALSE
    /\ pc' = "act"
    /\ UNCHANGED <<configVars, episode_rewards, episode_timesteps, total_worker_steps,
                   self_episodes_executed, sample_steps, sample_times, sample_env_frames,
                   last_state, last_ep_timestep, last_terminal, argVars, timesteps_executed,
                   episodes_executed, env_frames, states, actions, rewards, terminals,
                   break_loop, next_state, outVars, stepLog, epLog, midSkipTerminal,
                   steppedWhenDone, episodesAtCallStart>>

\* One decision point, lines 165-197: the agent picks an action, the frameskip
\* loop steps the environment (which returns terminal at its k-th step, never
\* if k = 0), and the transition is recorded.
DecisionPoint(k) ==
    /\ UNCHANGED <<limitsUsed, pureVars, auxVars>>
    /\ pc = "act"
    /\ LET f == FrameskipLoop([action |-> Policy(state),
                               done |-> 0, terminal |-> terminal, reward |-> 0,
                               next_state |-> next_state, clock |-> envClock,
                               log |-> <<>>, afterDone |-> FALSE, envDone |-> envDone],
                              worker_frameskip, k)
           te == timesteps_executed + 1
           et == episode_timestep + 1
           er == episode_reward + f.reward
       IN  /\ states' = Append(states, Preprocess(state))
           /\ actions' = Append(actions, Policy(state))
           /\ envClock' = f.clock /\ envDone' = f.envDone
           /\ env_frames' = env_frames + f.done
           /\ next_state' = f.next_state
           /\ terminal' = f.terminal
           /\ stepLog' = f.log
           /\ steppedWhenDone' = (steppedWhenDone \/ f.afterDone)
           /\ midSkipTerminal' = (midSkipTerminal \/ (f.terminal /\ f.done < worker_frameskip))
           /\ rewards' = Append(rewards, f.reward)
           /\ terminals' = Append(terminals, f.terminal)
           /\ episode_reward' = er
           /\ timesteps_executed' = te
           /\ episode_timestep' = et
           /\ state' = f.next_state
           /\ trueEpReward' = trueEpReward + f.reward
           /\ trueEpSteps' = trueEpSteps + 1
           /\ IF EpisodeBoundary(f.terminal, num_timesteps, te, max_timesteps_per_episode, et)
              THEN /\ episodes_executed' = episodes_executed + 1
                   /\ episode_rewards' = Append(episode_rewards, er)
                   /\ episode_timesteps' = Append(episode_timesteps, et)
                   /\ total_worker_steps' = total_worker_steps + te
                   /\ epLog' = Append(epLog, [reward |-> trueEpReward + f.reward,
                                              steps |-> trueEpSteps + 1,
                                              terminal |-> f.terminal])
                   /\ break_loop' = BreakLoop(f.terminal, break_on_terminal)
                   /\ pc' = "while"
                   /\ UNCHANGED self_episodes_executed
              ELSE /\ self_episodes_executed' = self_episodes_executed + 1
                   /\ pc' = "act"
                   /\ UNCHANGED <<episodes_executed, episode_rewards, episode_timesteps,
                                  total_worker_steps, epLog, break_loop>>
    /\ UNCHANGED <<envResets, agentResets, agentUpdates, configVars, sample_steps,
                   sample_times, sample_env_frames, last_state, last_ep_timestep,
                   last_ep_reward, last_terminal, argVars, outVars, episodesAtCallStart>>

\* The outer loop is left: by its test, or by `if break_loop: break`.
LoopLeft ==
    pc = "while" /\ (break_loop \/ ~LoopCondition(timesteps_executed, num_timesteps))

\* Lines 202-234 when the loop body never ran: `terminal` was never assigned, and
\* reading it at line 202 raises UnboundLocalError before any field is written.
FinishUnbound ==
    /\ UNCHANGED <<limitsUsed, pureVars, auxVars>>
    /\ LoopLeft /\ states = <<>>
    /\ callResult' = "UnboundLocalError"
    /\ callsDone' = callsDone + 1
    /\ pc' = "idle"
    /\ UNCHANGED <<envVars, configVars, fieldVars, argVars, localVars, sample, stats,
                   histVars>>

\* Lines 202-234 after at least one decision point.
Finish ==
    /\ UNCHANGED <<limitsUsed, pureVars, auxVars>>
    /\ LoopLeft /\ states # <<>>
    /\ LET total_time == TotalTime(MonotonicElapsed(env_frames))
           next_states == NextStates(states, FinalNextState(terminal, next_state))
           processed == ProcessSampleIfNecessary(states, actions, rewards, next_states,
                                                 terminals, n_step_adjustment,
                                                 worker_computes_weights)
       IN  /\ last_terminal' = terminal
           /\ last_ep_reward' = episode_reward
           /\ sample_steps' = Append(sample_steps, timesteps_executed)
           /\ sample_times' = Append(sample_times, total_time)
           /\ sample_env_frames' = Append(sample_env_frames, env_frames)
           /\ agentUpdates' = agentUpdates + Len(processed.update)
           /\ sample' = [status |-> "ok",
                         sample_batch |-> processed.sample_batch,
                         batch_size |-> processed.batch_size,
                         update |-> processed.update,
                         lists |-> processed.lists,
                         next_states |-> next_states,
                         metrics |-> [runtime |-> total_time,
                                      timesteps_executed |-> timesteps_executed,
                                      ops_per_second |-> <<timesteps_executed, total_time>>]]
    /\ callResult' = "ok"
    /\ callsDone' = callsDone + 1
    /\ pc' = "idle"
    /\ UNCHANGED <<envClock, envDone, envResets, agentResets, configVars, episode_rewards,
                   episode_timesteps, total_worker_steps, self_episodes_executed, last_state,
                   last_ep_timestep, argVars, localVars, stats, histVars>>

\* ------------------------------------------------------------------ get_workload_statistics
\* Lines 251-271. np.min of an empty list raises ValueError. Means are kept as
\* <<numerator, denominator>>.
\* Mutant of WorkloadStatistics: an empty history is reported as zeros.
WorkloadStatisticsZeroDefault(er, et, ee, tws, ss, st, sef) ==
    [status |-> "ok",
     episode_timesteps |-> et,
     episode_rewards |-> er,
     min_episode_reward |-> IF er = <<>> THEN 0 ELSE MinSeq(er),
     max_episode_reward |-> IF er = <<>> THEN 0 ELSE MaxSeq(er),
     mean_episode_reward |-> <<SumSeq(er), Len(er)>>,
     final_episode_reward |-> IF er = <<>> THEN 0 ELSE Last(er),
     episodes_executed |-> ee,
     worker_steps |-> tws,
     mean_worker_ops_per_second |-> <<SumSeq(ss), SumSeq(st)>>,
     mean_worker_env_frames_per_second |-> <<SumSeq(sef), SumSeq(st)>>]

\* Mutant of WorkloadStatistics: final_episode_reward is the first entry.
WorkloadStatisticsFirstEpisode(er, et, ee, tws, ss, st, sef) ==
    IF er = <<>> THEN [status |-> "ValueError"]
    ELSE IF SumSeq(st) = 0 THEN [status |-> "ZeroDivisionError"]
    ELSE [status |-> "ok",
          episode_timesteps |-> et,
          episode_rewards |-> er,
          min_episode_reward |-> MinSeq(er),
          max_episode_reward |-> MaxSeq(er),
          mean_episode_reward |-> <<SumSeq(er), Len(er)>>,
          final_episode_reward |-> Head(er),
          episodes_executed |-> ee,
          worker_steps |-> tws,
          mean_worker_ops_per_second |-> <<SumSeq(ss), SumSeq(st)>>,
          mean_worker_env_frames_per_second |-> <<SumSeq(sef), SumSeq(st)>>]

\* The dict of lines 260-271 for the given fields (er = episode_rewards, et =
\* episode_timesteps, ee = episodes_executed, tws = total_worker_steps, ss =
\* sample_steps, st = sample_times, sef = sample_env_frames), or the exception
\* its evaluation raises.
WorkloadStatistics(er, et, ee, tws, ss, st, sef) ==
    LET adjusted_frames == [i \in 1..Len(sef) |-> sef[i] * EnvFrameSkip]
    IN  IF er = <<>> THEN [status |-> "ValueError"]
        ELSE IF SumSeq(st) = 0 THEN [status |-> "ZeroDivisionError"]
        ELSE [status |-> "ok",
              episode_timesteps |-> et,
              episode_rewards |-> er,
              min_episode_reward |-> MinSeq(er),
              max_episode_reward |-> MaxSeq(er),
              mean_episode_reward |-> <<SumSeq(er), Len(er)>>,
              final_episode_reward |-> Last(er),
              episodes_executed |-> ee,
              worker_steps |-> tws,
              mean_worker_ops_per_second |-> <<SumSeq(ss), SumSeq(st)>>,
              mean_worker_env_frames_per_second |-> <<SumSeq(adjusted_frames), SumSeq(st)>>]

\* Mutant of GetWorkloadStatistics: the throughput histories are cleared once
\* they are reported.
GetWorkloadStatisticsClearing ==
    /\ UNCHANGED <<limitsUsed, pureVars, auxVars>>
    /\ pc = "idle" /\ stats.status = "none"
    /\ stats' = WorkloadStatistics(episode_rewards, episode_timesteps, self_episodes_executed,
                                   total_worker_steps, sample_steps, sample_times,
                                   sample_env_frames)
    /\ sample_steps' = <<>> /\ sample_times' = <<>>
    /\ UNCHANGED <<envVars, configVars, episode_rewards, episode_timesteps,
                   total_worker_steps, self_episodes_executed, sample_env_frames,
                   last_state, last_ep_timestep, last_ep_reward, last_terminal,
                   argVars, localVars, callResult, callsDone, sample, histVars, pc>>

GetWorkloadStatistics ==
    /\ UNCHANGED <<limitsUsed, pureVars, auxVars>>
    /\ pc = "idle" /\ stats.status = "none"
    /\ stats' = WorkloadStatistics(episode_rewards, episode_timesteps, self_episodes_executed,
                                   total_worker_steps, sample_steps, sample_times,
                                   sample_env_frames)
    /\ UNCHANGED <<envVars, configVars, fieldVars, argVars, localVars, callResult, callsDone,
                   sample, histVars, pc>>

Next ==
    \/ \E n \in NumTimestepsChoices, m \in EpisodeLimitChoices, b \in BOOLEAN :
          CallStart(n, m, b)
    \/ OuterIteration
    \/ \E k \in 0..worker_frameskip : DecisionPoint(k)
    \/ FinishUnbound
    \/ Finish
    \/ GetWorkloadStatistics

Spec == Init /\ [][Next]_vars

\* The calls of a worker that are followed to their end under fairness: its
\* first call, and the call after it (which starts from the fields the first
\* one left, last_terminal set or not).
FairCallsBefore == {0, 1}

NextFair ==
    \/ \E n \in NumTimestepsChoices, m \in EpisodeLimitChoices, b \in BOOLEAN :
          callsDone \in FairCallsBefore /\ CallStart(n, m, b)
    \/ OuterIteration
    \/ \E k \in 0..worker_frameskip : DecisionPoint(k)
    \/ FinishUnbound
    \/ Finish

\* A call runs synchronously to its end: as long as every environment and
\* agent call returns, the worker takes its next step.
SpecFair == Init /\ [][NextFair]_vars /\ WF_vars(NextFair)

\* get_constructor_success(), lines 91-95.
GetConstructorSuccess == ~last_terminal

\* ------------------------------------------------------------------ _process_sample_if_necessary on its own
\* The observations of a trajectory with terminal flags T collected by the first
\* call of a worker with frameskip 1: the environment's clock advances by one
\* per step and by one more for the reset that follows a terminal.
RECURSIVE Observations(_, _)
Observations(T, first) ==
    IF T = <<>> THEN <<>>
    ELSE <<first>> \o Observations(Tail(T), first + 1 + (IF Head(T) THEN 1 ELSE 0))

\* The arguments execute_and_get_timesteps passes at line 221 for a trajectory
\* with rewards R and terminal flags T, for a worker with n_step_adjustment n.
BatchInput(R, T, n, computes) ==
    LET obs == Observations(T, 1)
        L == Len(T)
        S == [i \in 1..L |-> Preprocess(obs[i])]
    IN  [status |-> "ok",
         states |-> S,
         actions |-> [i \in 1..L |-> Policy(obs[i])],
         rewards |-> R,
         next_states |-> NextStates(S, FinalNextState(T[L], obs[L] + 1)),
         terminals |-> T,
         n |-> n,
         computes |-> computes]

\* A worker constructed with some n-step setting and weights flag, about to
\* post-process some trajectory of up to MaxBatchLen transitions. The
\* constructor takes worker_spec["n_step_adjustment"] as it is (line 64), 0
\* included.
InitBatch ==
    /\ NoExecutor
    /\ FieldsInit
    /\ worker_frameskip = 1
    /\ \E L \in 1..MaxBatchLen :
          \E R \in [1..L -> BatchRewardChoices], T \in [1..L -> BOOLEAN] :
             \E n \in 0..MaxBatchNStep, c \in BOOLEAN :
                /\ psInput = BatchInput(R, T, n, c)
                /\ n_step_adjustment = n
                /\ worker_computes_weights = c
    /\ psOutput = NoSample

\* self._process_sample_if_necessary(states, actions, rewards, next_states, terminals)
ApplyProcessSample ==
    /\ psInput.status = "ok" /\ psOutput.status = "none"
    /\ LET processed == ProcessSampleIfNecessary(psInput.states, psInput.actions,
                                                 psInput.rewards, psInput.next_states,
                                                 psInput.terminals, n_step_adjustment,
                                                 worker_computes_weights)
       IN  psOutput' = [status |-> "ok",
                        sample_batch |-> processed.sample_batch,
                        batch_size |-> processed.batch_size,
                        lists |-> processed.lists,
                        update |-> processed.update]
    /\ UNCHANGED <<workerVars, psInput, auxVars>>

NextBatch == ApplyProcessSample

SpecBatch == InitBatch /\ [][NextBatch]_vars

\* ------------------------------------------------------------------ RayExecutor
\* cluster_spec dicts handed to RayExecutor.__init__.
ClusterSpecChoices == {"local", "cluster"}

\* The *args handed to create_remote_workers: agent_config, env_spec,
\* worker_spec and, optionally, frameskip.
CtorArgsChoices ==
    {<<a, e, ws>> : a \in {"dqn", "apex"}, e \in {"pong"}, ws \in WorkerSpecChoices}
    \cup {<<a, e, ws, fs>> : a \in {"dqn", "apex"}, e \in {"pong"},
                             ws \in WorkerSpecChoices, fs \in FrameskipChoices}

\* RayWorker.__init__(self, agent_config, env_spec, worker_spec, frameskip=1)
\* called with the positional arguments `given`: three of them are required
\* and at most four are taken. The actor handle records the outcome.
RayWorkerRemote(given) ==
    IF Len(given) < 3 \/ Len(given) > 4
    THEN [status |-> "TypeError", given |-> given]
    ELSE [status |-> "ok", given |-> given,
          agent_config |-> given[1], env_spec |-> given[2], worker_spec |-> given[3],
          frameskip |-> IF Len(given) = 4 THEN given[4] ELSE 1]

\* cls.remote(args), line 68: the constructor gets the tuple `args` as its one
\* positional argument.
RemoteArgs(args) == <<args>>

\* RayExecutor.__init__, lines 38-46 (no worker of its own is running).
InitExecutor ==
    /\ FieldsInit /\ NoConfigDicts
    /\ worker_frameskip = 1 /\ n_step_adjustment = 1 /\ worker_computes_weights = TRUE
    /\ psInput = NoSample /\ psOutput = NoSample
    /\ sdInput = NoSample /\ sdOutput = NoSample
    /\ policy_weights = 0 /\ active = 1 /\ parked = <<>>
    /\ cluster_spec \in ClusterSpecChoices
    /\ remote_workers = <<>>
    /\ execCall = [method |-> "none"] /\ execResult = "none"

\* create_remote_workers(cls, num_actors, *args), lines 58-68.
CreateRemoteWorkers(num_actors, args) ==
    /\ remote_workers' = [i \in 1..num_actors |-> RayWorkerRemote(RemoteArgs(args))]
    /\ execCall' = [method |-> "create_remote_workers", num_actors |-> num_actors,
                    args |-> args]
    /\ execResult' = "list"
    /\ UNCHANGED <<cluster_spec, workerVars, pureVars, seqVars, poolVars, configDictVars>>

\* Mutant of SetupExecution: the method does nothing and returns None.
SetupExecutionPasses ==
    /\ execCall' = [method |-> "setup_execution"]
    /\ execResult' = "None"
    /\ UNCHANGED <<cluster_spec, remote_workers, workerVars, pureVars, seqVars, poolVars,
                   configDictVars>>

\* setup_execution(), lines 70-74.
SetupExecution ==
    /\ execCall' = [method |-> "setup_execution"]
    /\ execResult' = "NotImplementedError"
    /\ UNCHANGED <<cluster_spec, remote_workers, workerVars, pureVars, seqVars, poolVars,
                   configDictVars>>

\* execute_workload(workload), lines 76-87.
ExecuteWorkload(workload) ==
    /\ execCall' = [method |-> "execute_workload", workload |-> workload]
    /\ execResult' = "NotImplementedError"
    /\ UNCHANGED <<cluster_spec, remote_workers, workerVars, pureVars, seqVars, poolVars,
                   configDictVars>>

NextExecutor ==
    \/ \E num_actors \in 0..MaxActors, args \in CtorArgsChoices :
          CreateRemoteWorkers(num_actors, args)
    \/ SetupExecution
    \/ \E workload \in NumTimestepsChoices : ExecuteWorkload(workload)

SpecExecutor == InitExecutor /\ [][NextExecutor]_vars

\* ------------------------------------------------------------------ configuration dicts
\* A dict is the function from its keys to their values.
\* d.get(k, default)
DictGet(d, k, default) == IF k \in DOMAIN d THEN d[k] ELSE default

\* del d[k] for a key that may be missing
DictDel(d, k) == [x \in DOMAIN d \ {k} |-> d[x]]

\* d.pop(k, default): the value returned and the dict that is left.
DictPop(d, k, default) == [value |-> DictGet(d, k, default), dict |-> DictDel(d, k)]

\* d[k] = v
DictSet(d, k, v) == [x \in DOMAIN d \cup {k} |-> IF x = k THEN v ELSE d[x]]

\* agent_config dicts: each has the 'type' entry the constructor lookup needs;
\* discount is a fraction, the epsilon decay starts from 2 units.
AgentConfigChoices ==
    {[type |-> "dqn", discount |-> <<DiscountNum, DiscountDen>>],
     [type |-> "apex",
      exploration_spec |-> [epsilon_spec |-> [decay_spec |-> [from |-> 2, to |-> 0]]]],
     [type |-> "apex", discount |-> <<DiscountNum, DiscountDen>>,
      exploration_spec |-> [epsilon_spec |-> [constant |-> 1]]]}

\* worker_spec dicts: those of WorkerSpecChoices, one that leaves
\* n_step_adjustment to its default, and two that ask for a sampled exploration.
WorkerSpecDictChoices ==
    WorkerSpecChoices \cup
    {[worker_computes_weights |-> FALSE],
     [n_step_adjustment |-> MaxNStep, sample_exploration |-> TRUE,
      exploration_min_value |-> 1],
     [sample_exploration |-> TRUE, exploration_min_value |-> 3]}

\* env_spec dicts.
EnvSpecChoices == {[type |-> "openai", gym_env |-> "pong"]}

\* RayExecutor.build_agent_from_config(agent_config), lines 99-102: the type is
\* popped from the dict (KeyError if it has none), and the rest of the dict
\* becomes the keyword arguments of the agent class.
BuildAgentFromConfig(cfg) ==
    IF "type" \notin DOMAIN cfg
    THEN [status |-> "KeyError", agent_config |-> cfg]
    ELSE LET popped == DictPop(cfg, "type", "none")
         IN  [status |-> "ok", agent_cls |-> popped.value, kwargs |-> popped.dict,
              agent_config |-> popped.dict]

\* np.random.uniform(low=exploration_min_value, high=decay_from): a value of
\* [low, high), low itself if the interval is empty.
UniformSamples(low, high) == IF low < high THEN low..(high - 1) ELSE {low}

\* setup_agent(agent_config, worker_spec), lines 101-117, `sampled` being the
\* value np.random.uniform returns if it is called.
SetupAgent(cfg, ws, sampled) ==
    LET sample_exploration == DictPop(ws, "sample_exploration", FALSE)
        exploration_min_value == DictPop(sample_exploration.dict, "exploration_min_value", 0)
        result(b, w) == [status |-> b.status, agent |-> b,
                         agent_config |-> b.agent_config, worker_spec |-> w]
    IN  IF ~sample_exploration.value
        THEN result(BuildAgentFromConfig(cfg), sample_exploration.dict)
        ELSE IF "exploration_spec" \notin DOMAIN cfg
        THEN [status |-> "KeyError", agent_config |-> cfg,
              worker_spec |-> exploration_min_value.dict]
        ELSE LET epsilon_spec == cfg.exploration_spec.epsilon_spec
             IN  IF "decay_spec" \notin DOMAIN epsilon_spec
                 THEN result(BuildAgentFromConfig(cfg), exploration_min_value.dict)
                 ELSE IF epsilon_spec.decay_spec.from < exploration_min_value.value
                 THEN [status |-> "AssertionError", agent_config |-> cfg,
                       worker_spec |-> exploration_min_value.dict]
                 ELSE result(BuildAgentFromConfig(
                                 [cfg EXCEPT !.exploration_spec.epsilon_spec.decay_spec.from
                                                = sampled]),
                             exploration_min_value.dict)

\* The values np.random.uniform can return in setup_agent for dicts as
\* __init__ hands them over ({0} if it is not called).
ExplorationSamples(cfg, ws) ==
    IF /\ DictGet(ws, "sample_exploration", FALSE)
       /\ "exploration_spec" \in DOMAIN cfg
       /\ "decay_spec" \in DOMAIN cfg.exploration_spec.epsilon_spec
       /\ cfg.exploration_spec.epsilon_spec.decay_spec.from
             >= DictGet(ws, "exploration_min_value", 0)
    THEN UniformSamples(DictGet(ws, "exploration_min_value", 0),
                        cfg.exploration_spec.epsilon_spec.decay_spec.from)
    ELSE {0}

\* RayWorker.__init__(agent_config, env_spec, worker_spec, frameskip), lines
\* 54-69: the dicts as the constructor leaves them, and the fields it sets.
WorkerInit(cfg, env_spec, ws, fs, sampled) ==
    LET with_state == DictSet(cfg, "state_space", <<env_spec.gym_env, "state_space">>)
        with_spaces == DictSet(with_state, "action_space",
                               <<env_spec.gym_env, "action_space">>)
        computes == DictPop(ws, "worker_computes_weights", TRUE)
        n_step == DictPop(computes.dict, "n_step_adjustment", 1)
        agent == SetupAgent(with_spaces, n_step.dict, sampled)
    IN  [status |-> agent.status,
         agent_config |-> agent.agent_config,
         worker_spec |-> agent.worker_spec,
         env_frame_skip |-> DictGet(env_spec, "frameskip", EnvFrameSkip),
         worker_computes_weights |-> computes.value,
         n_step_adjustment |-> n_step.value,
         discount |-> DictGet(with_spaces, "discount", <<99, 100>>),
         worker_frameskip |-> fs]

\* A caller holding an agent_config and a worker_spec it has filled, before it
\* constructs anything from them.
InitConfig ==
    /\ FieldsInit
    /\ worker_frameskip = 1 /\ n_step_adjustment = 1 /\ worker_computes_weights = TRUE
    /\ psInput = NoSample /\ psOutput = NoSample
    /\ sdInput = NoSample /\ sdOutput = NoSample
    /\ policy_weights = 0 /\ active = 1 /\ parked = <<>>
    /\ cluster_spec = "none" /\ remote_workers = <<>>
    /\ execCall = [method |-> "none"] /\ execResult = "none"
    /\ \E a \in AgentConfigChoices, w \in WorkerSpecDictChoices :
          /\ agent_config = a /\ worker_spec = w
          /\ passedConfig = [agent_config |-> a, worker_spec |-> w]
    /\ built = <<>>

\* RayExecutor.build_agent_from_config(agent_config) on the caller's dict.
BuildAgent ==
    /\ Len(built) < MaxBuilds
    /\ LET agent == BuildAgentFromConfig(agent_config)
       IN  /\ agent_config' = agent.agent_config
           /\ built' = Append(built, [call |-> "build_agent_from_config",
                                      status |-> agent.status])
    /\ UNCHANGED <<worker_spec, passedConfig, workerVars, pureVars, executorVars, seqVars,
                   poolVars>>

\* RayWorker(agent_config, env_spec, worker_spec, frameskip) on the caller's dicts.
ConstructWorker(env_spec, fs, sampled) ==
    /\ Len(built) < MaxBuilds
    /\ LET computes == DictPop(worker_spec, "worker_computes_weights", TRUE)
           n_step == DictPop(computes.dict, "n_step_adjustment", 1)
       IN  sampled \in ExplorationSamples(agent_config, n_step.dict)
    /\ LET worker == WorkerInit(agent_config, env_spec, worker_spec, fs, sampled)
       IN  /\ agent_config' = worker.agent_config
           /\ worker_spec' = worker.worker_spec
           /\ built' = Append(built, [call |-> "RayWorker",
                                      status |-> worker.status,
                                      worker_computes_weights |-> worker.worker_computes_weights,
                                      n_step_adjustment |-> worker.n_step_adjustment,
                                      worker_frameskip |-> worker.worker_frameskip])
    /\ UNCHANGED <<passedConfig, workerVars, pureVars, executorVars, seqVars, poolVars>>

NextConfig ==
    \/ BuildAgent
    \/ \E env_spec \in EnvSpecChoices, fs \in FrameskipChoices, sampled \in 0..2 :
          ConstructWorker(env_spec, fs, sampled)

SpecConfig == InitConfig /\ [][NextConfig]_vars

\* ------------------------------------------------------------------ SequenceHelper.calc_sequence_decays
\* decay as the fraction <<numerator, denominator>>; 0.5 is the docstring's.
DecayChoices == {<<1, 2>>, <<3, 4>>, <<1, 1>>}
BackendChoices == {"tf", "pytorch"}

\* pow(decay, length) / tf.pow(x=decay, y=length): an exact fraction (the
\* powers of the DecayChoices up to MaxSeqLen are exact floats).
DecayPow(decay, length) == <<Pow(decay[1], length), Pow(decay[2], length)>>

\* A float stored with dtype int32: the fraction is truncated.
ToInt32(q) == <<q[1] \div q[2], 1>>

\* The loop over sequence_indices from position i on (lines 146-170 and
\* 184-191): acc is [length, sequence_lengths, decays].
RECURSIVE SequenceLoop(_, _, _, _)
SequenceLoop(indices, decay, i, acc) ==
    IF i > Len(indices) THEN acc
    ELSE LET decays == Append(acc.decays, DecayPow(decay, acc.length))
             length == acc.length + 1
         IN  IF indices[i] = 1
             THEN SequenceLoop(indices, decay, i + 1,
                               [length |-> 0,
                                sequence_lengths |-> Append(acc.sequence_lengths, length),
                                decays |-> decays])
             ELSE SequenceLoop(indices, decay, i + 1,
                               [length |-> length,
                                sequence_lengths |-> acc.sequence_lengths,
                                decays |-> decays])

\* _graph_fn_calc_sequence_decays(sequence_indices, decay), lines 123-197.
CalcSequenceDecays(backend, indices, decay) ==
    LET looped == SequenceLoop(indices, decay, 1,
                               [length |-> 0, sequence_lengths |-> <<>>, decays |-> <<>>])
        sequence_lengths == IF looped.length > 0
                            THEN Append(looped.sequence_lengths, looped.length)
                            ELSE looped.sequence_lengths
    IN  IF backend = "tf"
        THEN [status |-> "ok", sequence_lengths |-> sequence_lengths,
              decays |-> looped.decays]
        ELSE [status |-> "ok", sequence_lengths |-> sequence_lengths,
              decays |-> [i \in 1..Len(looped.decays) |-> ToInt32(looped.decays[i])]]

\* A SequenceHelper of either backend, about to be given some sequence.
InitSeq ==
    /\ FieldsInit /\ NoConfigDicts
    /\ worker_frameskip = 1 /\ n_step_adjustment = 1 /\ worker_computes_weights = TRUE
    /\ psInput = NoSample /\ psOutput = NoSample
    /\ cluster_spec = "none" /\ remote_workers = <<>>
    /\ execCall = [method |-> "none"] /\ execResult = "none"
    /\ policy_weights = 0 /\ active = 1 /\ parked = <<>>
    /\ \E L \in 1..MaxSeqLen :
          \E indices \in [1..L -> {0, 1}], decay \in DecayChoices, backend \in BackendChoices :
             sdInput = [status |-> "ok", backend |-> backend,
                        sequence_indices |-> indices, decay |-> decay]
    /\ sdOutput = NoSample

ApplyCalcSequenceDecays ==
    /\ sdInput.status = "ok" /\ sdOutput.status = "none"
    /\ sdOutput' = CalcSequenceDecays(sdInput.backend, sdInput.sequence_indices,
                                      sdInput.decay)
    /\ UNCHANGED <<workerVars, pureVars, executorVars, poolVars, configDictVars, sdInput>>

NextSeq == ApplyCalcSequenceDecays

SpecSeq == InitSeq /\ [][NextSeq]_vars

\* ------------------------------------------------------------------ a pool of workers
\* The workers of a pool: Ray runs each actor on its own, and the executor
\* calls their methods in any order.
PoolWorkers == {1, 2}
\* The weights an executor pushes to a worker (its agent is built with 0).
WeightChoices == {1}
\* The arguments of the rollout calls made on the workers of a pool.
PoolCallChoices ==
    {[num_timesteps |-> 1, max_timesteps_per_episode |-> 0, break_on_terminal |-> FALSE],
     [num_timesteps |-> 2, max_timesteps_per_episode |-> 0, break_on_terminal |-> TRUE],
     [num_timesteps |-> 2, max_timesteps_per_episode |-> 1, break_on_terminal |-> FALSE]}

\* Everything a worker owns: its environment, its agent and the attributes and
\* call frame of the RayWorker instance (lines 55-89, 133-144).
OwnState ==
    [envClock |-> envClock, envDone |-> envDone, envResets |-> envResets,
     agentResets |-> agentResets, agentUpdates |-> agentUpdates,
     worker_frameskip |-> worker_frameskip, n_step_adjustment |-> n_step_adjustment,
     worker_computes_weights |-> worker_computes_weights,
     episode_rewards |-> episode_rewards, episode_timesteps |-> episode_timesteps,
     total_worker_steps |-> total_worker_steps,
     self_episodes_executed |-> self_episodes_executed, sample_steps |-> sample_steps,
     sample_times |-> sample_times, sample_env_frames |-> sample_env_frames,
     last_state |-> last_state, last_ep_timestep |-> last_ep_timestep,
     last_ep_reward |-> last_ep_reward, last_terminal |-> last_terminal,
     num_timesteps |-> num_timesteps,
     max_timesteps_per_episode |-> max_timesteps_per_episode,
     break_on_terminal |-> break_on_terminal,
     timesteps_executed |-> timesteps_executed,
     episodes_executed |-> episodes_executed, env_frames |-> env_frames,
     states |-> states, actions |-> actions, rewards |-> rewards,
     terminals |-> terminals, break_loop |-> break_loop, next_state |-> next_state,
     state |-> state, episode_reward |-> episode_reward,
     episode_timestep |-> episode_timestep, terminal |-> terminal,
     callResult |-> callResult, callsDone |-> callsDone, sample |-> sample,
     stats |-> stats, stepLog |-> stepLog, epLog |-> epLog,
     trueEpReward |-> trueEpReward, trueEpSteps |-> trueEpSteps,
     midSkipTerminal |-> midSkipTerminal, steppedWhenDone |-> steppedWhenDone,
     episodesAtCallStart |-> episodesAtCallStart, limitsUsed |-> limitsUsed, pc |-> pc,
     policy_weights |-> policy_weights]

\* Placeholder in `parked` for the active worker.
NotParked == [pc |-> "active"]

\* The fields of worker v.
WorkerState(v) == IF v = active THEN OwnState ELSE parked[v]

\* Calls to execute_and_get_timesteps started on the workers of the pool.
RECURSIVE SumOver(_, _)
SumOver(f, S) ==
    IF S = {} THEN 0
    ELSE LET v == CHOOSE x \in S : TRUE IN f[v] + SumOver(f, S \ {v})

PoolCallsStarted ==
    SumOver([v \in PoolWorkers |->
                WorkerState(v).callsDone + (IF WorkerState(v).pc = "idle" THEN 0 ELSE 1)],
            PoolWorkers)

\* Mutant of Resumed: episode_rewards and episode_timesteps are one pair of
\* lists that all workers append to.
ResumedSharingEpisodeLists(own, current) ==
    [own EXCEPT !.episode_rewards = current.episode_rewards,
                !.episode_timesteps = current.episode_timesteps]

\* What a worker finds when it runs again: the objects its constructor created
\* for it (lines 56, 68, 72-89), whatever the worker `current` did meanwhile.
Resumed(own, current) == own

\* A pool of workers constructed with the same arguments (lines 52-89), none
\* of them called yet.
InitPool ==
    /\ FieldsInit /\ NoConfigDicts
    /\ worker_frameskip = 1
    /\ \E ws \in WorkerSpecChoices :
          /\ n_step_adjustment = ws.n_step_adjustment
          /\ worker_computes_weights = ws.worker_computes_weights
    /\ psInput = NoSample /\ psOutput = NoSample
    /\ sdInput = NoSample /\ sdOutput = NoSample
    /\ cluster_spec = "none" /\ remote_workers = <<>>
    /\ execCall = [method |-> "none"] /\ execResult = "none"
    /\ policy_weights = 0
    /\ active = 1
    /\ parked = [v \in PoolWorkers |-> IF v = 1 THEN NotParked ELSE OwnState]

\* The next step taken in the pool is one of worker v.
SwitchWorker(v) ==
    /\ v \in PoolWorkers /\ v # active
    /\ active' = v
    /\ parked' = [parked EXCEPT ![active] = OwnState, ![v] = NotParked]
    /\ LET own == Resumed(parked[v], OwnState)
       IN
           /\ envClock' = own.envClock
           /\ envDone' = own.envDone
           /\ envResets' = own.envResets
           /\ agentResets' = own.agentResets
           /\ agentUpdates' = own.agentUpdates
           /\ worker_frameskip' = own.worker_frameskip
           /\ n_step_adjustment' = own.n_step_adjustment
           /\ worker_computes_weights' = own.worker_computes_weights
           /\ episode_rewards' = own.episode_rewards
           /\ episode_timesteps' = own.episode_timesteps
           /\ total_worker_steps' = own.total_worker_steps
           /\ self_episodes_executed' = own.self_episodes_executed
           /\ sample_steps' = own.sample_steps
           /\ sample_times' = own.sample_times
           /\ sample_env_frames' = own.sample_env_frames
           /\ last_state' = own.last_state
           /\ last_ep_timestep' = own.last_ep_timestep
           /\ last_ep_reward' = own.last_ep_reward
           /\ last_terminal' = own.last_terminal
           /\ num_timesteps' = own.num_timesteps
           /\ max_timesteps_per_episode' = own.max_timesteps_per_episode
           /\ break_on_terminal' = own.break_on_terminal
           /\ timesteps_executed' = own.timesteps_executed
           /\ episodes_executed' = own.episodes_executed
           /\ env_frames' = own.env_frames
           /\ states' = own.states
           /\ actions' = own.actions
           /\ rewards' = own.rewards
           /\ terminals' = own.terminals
           /\ break_loop' = own.break_loop
           /\ next_state' = own.next_state
           /\ state' = own.state
           /\ episode_reward' = own.episode_reward
           /\ episode_timestep' = own.episode_timestep
           /\ terminal' = own.terminal
           /\ callResult' = own.callResult
           /\ callsDone' = own.callsDone
           /\ sample' = own.sample
           /\ stats' = own.stats
           /\ stepLog' = own.stepLog
           /\ epLog' = own.epLog
           /\ trueEpReward' = own.trueEpReward
           /\ trueEpSteps' = own.trueEpSteps
           /\ midSkipTerminal' = own.midSkipTerminal
           /\ steppedWhenDone' = own.steppedWhenDone
           /\ episodesAtCallStart' = own.episodesAtCallStart
           /\ limitsUsed' = own.limitsUsed
           /\ pc' = own.pc
           /\ policy_weights' = own.policy_weights
    /\ UNCHANGED <<pureVars, executorVars, seqVars, configDictVars>>

\* Mutant of SetPolicyWeights: the episode carried over between calls is dropped.
SetPolicyWeightsDroppingEpisode(weights) ==
    /\ pc = "idle"
    /\ policy_weights' = weights
    /\ last_ep_reward' = 0 /\ last_terminal' = FALSE
    /\ UNCHANGED <<envVars, configVars, episode_rewards, episode_timesteps,
                   total_worker_steps, self_episodes_executed, sample_steps, sample_times,
                   sample_env_frames, last_state, last_ep_timestep, argVars, localVars,
                   outVars, histVars, limitsUsed, pc, pureVars, executorVars, seqVars,
                   configDictVars, active, parked>>

\* set_policy_weights(weights), lines 248-249, called between rollout calls:
\* self.agent.set_policy_weights(weights), nothing is returned.
SetPolicyWeights(weights) ==
    /\ pc = "idle"
    /\ policy_weights' = weights
    /\ UNCHANGED <<workerVars, pureVars, executorVars, seqVars, configDictVars, active, parked>>

NextPool ==
    \/ \E c \in PoolCallChoices :
          /\ PoolCallsStarted < MaxPoolCalls
          /\ CallStart(c.num_timesteps, c.max_timesteps_per_episode, c.break_on_terminal)
    \/ OuterIteration
    \/ \E k \in 0..worker_frameskip : DecisionPoint(k)
    \/ Finish
    \/ \E weights \in WeightChoices : SetPolicyWeights(weights)
    \/ \E v \in PoolWorkers : SwitchWorker(v)

SpecPool == InitPool /\ [][NextPool]_vars

\* ------------------------------------------------------------------ properties
\* A call to execute_and_get_timesteps has returned an EnvironmentSample.
CallReturned == pc = "idle" /\ callResult = "ok"

\* No transition collected by the current (or last) call is terminal.
NoTerminalInCall == \A i \in 1..Len(terminals) : ~terminals[i]

\* C1: when the previous call ended on a non-terminal state, the state handed
\* to the agent at the first decision point of the next call is the successor
\* state the environment produced at its last step (its current observation).
C1_ResumesFromSuccessorState ==
    (pc = "act" /\ timesteps_executed = 0 /\ sample_steps # <<>> /\ ~last_terminal)
        => state = envClock

\* C2: a call with num_timesteps > 0 and break_on_terminal = False returns
\* after exactly num_timesteps decision points, whatever terminals and
\* episode-limit truncations occurred.
C2_ExactlyNumTimesteps ==
    (pc = "idle" /\ callsDone > 0 /\ num_timesteps > 0 /\ ~break_on_terminal)
        => /\ callResult = "ok"
           /\ sample.metrics.timesteps_executed = num_timesteps
           /\ Len(rewards) = num_timesteps
           /\ Last(sample_steps) = num_timesteps

\* C2 witness: such a call returned after a terminal at its first decision
\* point, and it was not the first call of the worker.
C2_Witness ==
    /\ CallReturned /\ callsDone > 1 /\ ~break_on_terminal
    /\ num_timesteps > 1 /\ terminals[1]
    /\ sample.metrics.timesteps_executed = num_timesteps

\* C3: a call with num_timesteps > 0 and break_on_terminal = False in which no
\* terminal occurs and no episode limit applies appends nothing to the
\* completed-episode histories and leaves last_terminal = False.
C3_NoEpisodeRecordedWithoutTerminal ==
    (CallReturned /\ num_timesteps > 0 /\ ~break_on_terminal
        /\ max_timesteps_per_episode = 0 /\ NoTerminalInCall)
        => /\ Len(episode_rewards) = episodesAtCallStart
           /\ Len(episode_timesteps) = episodesAtCallStart
           /\ last_terminal = FALSE

\* C4: every recorded episode reward is the sum of the per-decision-point
\* rewards of its episode, and an episode contributes one entry only: there
\* are never more entries than episodes started (environment resets).
C4_OneEntryPerEpisode ==
    /\ \A i \in 1..Len(episode_rewards) : episode_rewards[i] = epLog[i].reward
    /\ Len(episode_rewards) <= envResets

\* C5: the length recorded for an episode that completes with a terminal is
\* the number of decision points of the episode over all the calls it spans.
C5_EpisodeLengthAcrossCalls ==
    \A i \in 1..Len(episode_timesteps) :
        epLog[i].terminal => episode_timesteps[i] = epLog[i].steps

\* C6: a call with num_timesteps = 0 and break_on_terminal = True runs until
\* the first terminal and returns a sample ending at that terminal.
C6_ZeroTimestepsRunsUntilTerminal ==
    (pc = "idle" /\ callsDone > 0 /\ num_timesteps = 0 /\ break_on_terminal)
        => /\ callResult = "ok"
           /\ terminals # <<>>
           /\ Last(terminals)

\* C7: with break_on_terminal = True and num_timesteps > 0, a call executes at
\* most num_timesteps decision points, only the last collected transition can
\* be terminal, and no decision point is started after a terminal.
C7_BreakOnTerminal ==
    (break_on_terminal /\ num_timesteps > 0)
        => /\ timesteps_executed <= num_timesteps
           /\ \A i \in 1..(Len(terminals) - 1) : ~terminals[i]
           /\ pc = "act" => NoTerminalInCall

\* C7 witness: a call returned at a terminal before its timestep budget was
\* used up.
C7_Witness ==
    /\ CallReturned /\ break_on_terminal
    /\ timesteps_executed < num_timesteps
    /\ Last(terminals)

\* C8: the worker_steps reported by get_workload_statistics is the sum of the
\* per-call sample_steps.
C8_WorkerStepsIsTotal ==
    stats.status = "ok" => stats.worker_steps = SumSeq(sample_steps)

\* C9: the episodes_executed reported by get_workload_statistics is the number
\* of entries in the completed-episode reward history.
C9_EpisodesExecutedIsHistoryLength ==
    stats.status = "ok" => stats.episodes_executed = Len(episode_rewards)

\* C10: each decision point records one transition; its action is repeated for
\* at most worker_frameskip environment steps, none after a step that
\* returned terminal; its reward is the sum of the rewards of these steps; and
\* per call timesteps_executed <= env_frames <= timesteps_executed *
\* worker_frameskip, with equality on the right if no terminal cut a skip short.
C10_FrameskipPerDecision ==
    /\ Len(states) = timesteps_executed /\ Len(actions) = timesteps_executed
    /\ Len(rewards) = timesteps_executed /\ Len(terminals) = timesteps_executed
    /\ timesteps_executed > 0 =>
          /\ Len(stepLog) >= 1 /\ Len(stepLog) <= worker_frameskip
          /\ \A i \in 1..Len(stepLog) : stepLog[i][1] = Last(actions)
          /\ \A i \in 1..(Len(stepLog) - 1) : ~stepLog[i][3]
          /\ Len(stepLog) < worker_frameskip => Last(stepLog)[3]
          /\ Last(rewards) = SumSeq([i \in 1..Len(stepLog) |-> stepLog[i][2]])
          /\ Last(terminals) = Last(stepLog)[3]
    /\ timesteps_executed <= env_frames
    /\ env_frames <= timesteps_executed * worker_frameskip
    /\ ~midSkipTerminal => env_frames = timesteps_executed * worker_frameskip

\* C10 witness: a call of several decision points returned, with a frameskip
\* above 1 and a terminal that cut one skip short.
C10_Witness ==
    /\ CallReturned /\ worker_frameskip > 1 /\ timesteps_executed > 1
    /\ midSkipTerminal
    /\ env_frames < timesteps_executed * worker_frameskip

\* _process_sample_if_necessary has returned (specification SpecBatch).
BatchDone == psOutput.status = "ok"

\* The offset at which the fold of transition i stops: the first terminal among
\* the transitions i+1..i+n-1, else n-1.
FoldOffset(T, i, n) ==
    LET hits == {j \in 1..(n - 1) : i + j <= Len(T) /\ T[i + j]}
    IN  IF hits = {} THEN n - 1
        ELSE CHOOSE j \in hits : \A h \in hits : j <= h

\* sum over j = from..k of discount^j * R[i+j], in units of 1 / RewardScale(n)
RECURSIVE DiscountedSum(_, _, _, _, _)
DiscountedSum(R, i, from, k, n) ==
    IF from > k THEN 0
    ELSE Discounted(R[i + from], from, n) + DiscountedSum(R, i, from + 1, k, n)

\* C11: when every call passed the same max_timesteps_per_episode = m > 0, the
\* environment is never advanced by more than m decision points without a reset.
C11_EpisodeLimitBoundsEpisode ==
    (limitsUsed = {max_timesteps_per_episode} /\ max_timesteps_per_episode > 0)
        => trueEpSteps <= max_timesteps_per_episode

\* C12: in every batch the post-processor returns, states, actions, rewards,
\* terminals and importance_weights have the same length, and batch_size is
\* that length.
C12_BatchFieldsAligned ==
    BatchDone =>
        LET b == psOutput.sample_batch
        IN  /\ Len(b.states) = psOutput.batch_size
            /\ Len(b.actions) = psOutput.batch_size
            /\ Len(b.rewards) = psOutput.batch_size
            /\ Len(b.terminals) = psOutput.batch_size
            /\ Len(b.importance_weights) = psOutput.batch_size

\* C12 witness: a batch of an n-step worker that lost some, not all, of the
\* collected transitions.
C12_Witness ==
    /\ BatchDone /\ psInput.n > 1
    /\ psOutput.batch_size > 0
    /\ psOutput.batch_size < Len(psInput.rewards)

\* C13: in the transition set a call assembles, next_states[i] = states[i+1]
\* for every i but the last, and the last next state is the preprocessed
\* successor the environment returned at its last step, or the zero
\* placeholder if the last transition is terminal.
C13_NextStatesShifted ==
    CallReturned =>
        LET ns == sample.next_states
            L == Len(states)
        IN  /\ Len(ns) = L
            /\ \A i \in 1..(L - 1) : ns[i] = states[i + 1]
            /\ ns[L] = (IF terminals[L] THEN ZerosLike ELSE Preprocess(envClock))

\* C13 witness: a call of several decision points returned with a terminal
\* last transition, so the placeholder was appended.
C13_Witness ==
    /\ CallReturned /\ Len(states) > 1 /\ Last(terminals)
    /\ Last(sample.next_states) = ZerosLike

\* C14: with n_step_adjustment > 1 every emitted transition keeps its own
\* state, and a non-terminal one gets as next state the next state of the
\* transition at which its fold stopped.
C14_NStepReplacesNextState ==
    (BatchDone /\ psInput.n > 1) =>
        \A i \in 1..psOutput.batch_size :
            /\ psOutput.lists.states[i] = psInput.states[i]
            /\ (~psInput.terminals[i] /\ i + psInput.n - 1 <= Len(psInput.terminals))
                  => psOutput.lists.next_states[i]
                       = psInput.next_states[i + FoldOffset(psInput.terminals, i, psInput.n)]

\* C15: with n_step_adjustment = n > 1 the reward of every emitted non-terminal
\* transition i is the sum over j = 0..k of discount^j * r[i+j], k being the
\* offset of the first terminal among the next n-1 transitions, else n-1;
\* terminal transitions keep their reward.
C15_NStepRewardSum ==
    (BatchDone /\ psInput.n > 1) =>
        LET n == psInput.n
            R == psInput.rewards
            T == psInput.terminals
        IN  \A i \in 1..psOutput.batch_size :
               LET k == FoldOffset(T, i, n)
               IN  IF T[i] THEN psOutput.sample_batch.rewards[i] = Discounted(R[i], 0, n)
                   ELSE i + k <= Len(R) =>
                          psOutput.sample_batch.rewards[i] = DiscountedSum(R, i, 0, k, n)

\* C16: with n_step_adjustment = n > 1 and L >= n collected transitions, every
\* list of the batch keeps exactly its first L - n + 1 entries (the trailing
\* n - 1 are removed): the lists the fold does not write are the prefixes of
\* the collected ones.
C16_TruncatesTrailingTransitions ==
    (BatchDone /\ psInput.n > 1 /\ Len(psInput.rewards) >= psInput.n) =>
        LET kept == Len(psInput.rewards) - psInput.n + 1
            b == psOutput.sample_batch
        IN  /\ psOutput.batch_size = kept
            /\ Len(b.states) = kept /\ Len(b.rewards) = kept
            /\ b.actions = SubSeq(psInput.actions, 1, kept)
            /\ b.terminals = SubSeq(psInput.terminals, 1, kept)
            /\ psOutput.lists.next_states = SubSeq(psInput.next_states, 1, kept)

\* C16 witness: 5 collected transitions and n = 3 gave a batch of 3.
C16_Witness ==
    /\ BatchDone /\ psInput.n = 3 /\ Len(psInput.rewards) = 5
    /\ psOutput.batch_size = 3

\* C17: with n_step_adjustment = 1 the batch has as many transitions as were
\* collected, and its states (compressed one by one), actions, rewards and
\* terminals are those of the collected trajectory.
C17_NStepOneIsIdentity ==
    (BatchDone /\ psInput.n = 1) =>
        LET b == psOutput.sample_batch
            L == Len(psInput.rewards)
        IN  /\ psOutput.batch_size = L
            /\ Len(b.states) = L
            /\ \A i \in 1..L : b.states[i] = RayCompress(psInput.states[i])
            /\ psOutput.lists.states = psInput.states
            /\ b.actions = psInput.actions
            /\ b.rewards = psInput.rewards
            /\ b.terminals = psInput.terminals

\* C17 witness: a batch of a worker with n_step_adjustment = 1 whose trajectory
\* has several transitions and a terminal before the last one.
C17_Witness ==
    /\ BatchDone /\ psInput.n = 1 /\ Len(psInput.rewards) > 2
    /\ psInput.terminals[1]
    /\ psOutput.batch_size = Len(psInput.rewards)

\* C18: a worker that does not compute weights never calls agent.update and
\* returns weights of 1 (SmallNumberInv units); a worker that does has called
\* it once per returned call, with the post-processed lists and weights of 1,
\* and returns weights |loss| + SMALL_NUMBER, all above 0.
C18_ImportanceWeights ==
    /\ ~worker_computes_weights => agentUpdates = 0
    /\ worker_computes_weights => agentUpdates <= Len(sample_steps) + 1
    /\ CallReturned =>
          LET w == sample.sample_batch.importance_weights
          IN  IF worker_computes_weights
              THEN /\ agentUpdates = Len(sample_steps)
                   /\ Len(sample.update) = 1
                   /\ sample.update[1].states = sample.lists.states
                   /\ sample.update[1].actions = sample.lists.actions
                   /\ sample.update[1].rewards = sample.lists.rewards
                   /\ sample.update[1].terminals = sample.lists.terminals
                   /\ sample.update[1].next_states = sample.lists.next_states
                   /\ Len(sample.update[1].rewards) = sample.batch_size
                   /\ \A i \in 1..Len(w) :
                         LET l == LossPerItem(sample.update[1].rewards[i])
                         IN  /\ w[i] = (IF l < 0 THEN -l ELSE l) * SmallNumberInv + 1
                             /\ w[i] > 0
              ELSE /\ sample.update = <<>>
                   /\ \A i \in 1..Len(w) : w[i] = SmallNumberInv

\* C18 witness: a second call of a weight-computing worker returned, and the
\* agent reported a negative loss for one of its transitions.
C18_Witness ==
    /\ CallReturned /\ worker_computes_weights /\ callsDone > 1
    /\ agentUpdates > 1
    /\ \E i \in 1..Len(rewards) : LossPerItem(sample.update[1].rewards[i]) < 0

\* C19: get_workload_statistics called while no episode is recorded raises
\* instead of returning aggregates, and changes nothing of the worker.
C19_StatisticsFailWhenEmpty ==
    [][(stats.status = "none" /\ stats'.status # "none" /\ episode_rewards = <<>>)
          => /\ stats'.status = "ValueError"
             /\ UNCHANGED <<envVars, configVars, fieldVars, argVars, localVars, pc>>]_vars

\* C19 witness: the statistics were asked for, and refused, after a call that
\* recorded nothing.
C19_Witness ==
    /\ stats.status = "ValueError" /\ episode_rewards = <<>> /\ callsDone > 0

\* C20: every runtime appended to sample_times and reported in the metrics is
\* positive, it is the epsilon (1 unit of 1e-10 s) when the measured time is 0,
\* and neither ops_per_second nor the mean throughputs divide by zero.
C20_RuntimeNeverZero ==
    /\ \A i \in 1..Len(sample_times) : sample_times[i] > 0
    /\ stats.status # "ZeroDivisionError"
    /\ stats.status = "ok" =>
          /\ stats.mean_worker_ops_per_second[2] > 0
          /\ stats.mean_worker_env_frames_per_second[2] > 0
    /\ CallReturned =>
          /\ sample.metrics.runtime > 0
          /\ sample.metrics.ops_per_second[2] = sample.metrics.runtime
          /\ Last(sample_times) = sample.metrics.runtime
          /\ MonotonicElapsed(env_frames) = 0 => sample.metrics.runtime = 1

\* C20 witness: the statistics were computed after a call whose measured
\* runtime was 0.
C20_Witness ==
    /\ CallReturned /\ MonotonicElapsed(env_frames) = 0
    /\ sample.metrics.runtime = 1
    /\ stats.status = "ok"

\* C21: the list create_remote_workers(cls, num_actors, *args) returns has
\* num_actors workers, and each got the arguments args as the positional
\* arguments of its constructor (agent_config, env_spec, worker_spec, frameskip).
C21_WorkersGetCtorArgs ==
    execCall.method = "create_remote_workers" =>
        /\ Len(remote_workers) = execCall.num_actors
        /\ \A i \in 1..Len(remote_workers) :
              /\ remote_workers[i].status = "ok"
              /\ remote_workers[i].given = execCall.args

\* C22: a step of one worker of a pool leaves the fields of every other worker
\* as they were, in whatever order the workers take their steps; and each
\* worker's histories hold what its own calls recorded: one throughput entry
\* per call of its own that returned, one episode entry per episode boundary
\* of its own.
C22_WorkersIsolated ==
    /\ [](\A v \in PoolWorkers :
             LET w == WorkerState(v)
             IN  /\ Len(w.sample_steps) = w.callsDone
                 /\ Len(w.episode_rewards) = Len(w.epLog)
                 /\ (w.pc = "idle" /\ w.callsDone > 0)
                       => w.sample.metrics.timesteps_executed = Last(w.sample_steps))
    /\ [][\A v \in PoolWorkers :
             (v # active \/ active' # active) => WorkerState(v)' = WorkerState(v)]_vars

\* C22 witness: both workers are in the middle of a rollout call, one of them
\* in its second call.
C22_Witness ==
    /\ pc = "act" /\ timesteps_executed = 1 /\ callsDone = 0
    /\ \E v \in PoolWorkers \ {active} :
          /\ parked[v].pc = "act" /\ parked[v].timesteps_executed = 1
          /\ parked[v].episode_rewards # <<>>

\* C23: set_policy_weights between two rollout calls changes the policy
\* parameters of the worker's agent and nothing else of the worker (last state,
\* last episode reward and timestep, last_terminal, counters, histories, its
\* environment), and nothing of the other workers.
C23_SetWeightsFrame ==
    [][(policy_weights' # policy_weights /\ active' = active)
          => /\ policy_weights' \in WeightChoices
             /\ pc = "idle"
             /\ UNCHANGED <<fieldVars, envVars, configVars, parked>>]_vars

\* C23 witness: a worker is in its second call with the weights that were
\* pushed to it after its first call, which ended inside an episode.
C23_Witness ==
    /\ policy_weights \in WeightChoices
    /\ callsDone = 1 /\ pc = "act" /\ last_ep_reward > 0 /\ ~last_terminal
    /\ episode_reward > last_ep_reward

\* C24: a worker_spec with n_step_adjustment < 1 is rejected when the worker is
\* constructed, so no trajectory is ever post-processed by a worker that has it.
C24_InvalidNStepRejected ==
    BatchDone => n_step_adjustment >= 1

\* C25: setup_execution and execute_workload of the base executor raise
\* NotImplementedError, and leave the cluster_spec and the workers created so
\* far as they were.
C25_AbstractMethodsRaise ==
    [][execCall'.method \in {"setup_execution", "execute_workload"}
          => /\ execResult' = "NotImplementedError"
             /\ UNCHANGED <<cluster_spec, remote_workers>>]_vars

\* C25 witness: execute_workload was refused by an executor that has created
\* workers.
C25_Witness ==
    /\ execCall.method = "execute_workload"
    /\ execResult = "NotImplementedError"
    /\ Len(remote_workers) = MaxActors

\* The offset of position i inside its subsequence of the indices I: the
\* number of positions since the last 1 before i.
OffsetInSubsequence(I, i) ==
    LET ones == {j \in 1..(i - 1) : I[j] = 1}
    IN  IF ones = {} THEN i - 1
        ELSE i - 1 - (CHOOSE j \in ones : \A h \in ones : h <= j)

\* The positions at which a subsequence of the indices I ends.
SubsequenceEnds(I) == {i \in 1..Len(I) : I[i] = 1 \/ i = Len(I)}

\* C26: calc_sequence_decays returns, in either backend, the lengths of the
\* subsequences (each ends at a 1, a trailing run is the last one) and for each
\* position decay raised to its offset inside its subsequence.
C26_SequenceDecays ==
    sdOutput.status = "ok" =>
        LET I == sdInput.sequence_indices
            lens == sdOutput.sequence_lengths
            ends == SubsequenceEnds(I)
        IN  /\ Len(lens) = Cardinality(ends)
            /\ \A e \in ends :
                  lens[Cardinality({h \in ends : h <= e})] = OffsetInSubsequence(I, e) + 1
            /\ Len(sdOutput.decays) = Len(I)
            /\ \A i \in 1..Len(I) :
                  LET k == OffsetInSubsequence(I, i)
                      d == sdOutput.decays[i]
                  IN  d[1] * Pow(sdInput.decay[2], k) = Pow(sdInput.decay[1], k) * d[2]

\* C27: the environment is never stepped after a terminal without a reset in
\* between, and every environment reset of a rollout call comes with an agent
\* reset and sets the episode reward and episode timestep accumulators to 0.
C27_ResetAfterTerminal ==
    /\ [](~steppedWhenDone /\ agentResets = envResets)
    /\ [][envResets' # envResets
             => /\ envResets' = envResets + 1
                /\ agentResets' = agentResets + 1
                /\ ~envDone'
                /\ episode_reward' = 0 /\ episode_timestep' = 0]_vars

\* C27 witness: a call that followed a call ended by a terminal has reset the
\* environment and stepped it again.
C27_Witness ==
    /\ callsDone > 0 /\ last_terminal /\ pc # "idle"
    /\ envResets > 1 /\ timesteps_executed > 0
    /\ ~steppedWhenDone

\* C28: get_constructor_success returns True in every state a constructed
\* worker reaches between calls.
C28_ConstructorSuccessAlways ==
    pc = "idle" => GetConstructorSuccess

\* C29: a call with num_timesteps > 0 returns: its decision points never
\* exceed num_timesteps, each iteration of the inner loop adds one, and the
\* call reaches its return.
C29_CallTerminates ==
    /\ []((pc # "idle" /\ num_timesteps > 0) => timesteps_executed <= num_timesteps)
    /\ [][(pc = "act" /\ num_timesteps > 0)
             => /\ timesteps_executed' = timesteps_executed + 1
                /\ timesteps_executed' <= num_timesteps]_vars
    /\ ((pc # "idle" /\ num_timesteps > 0) ~> (pc = "idle" /\ callResult = "ok"))

\* C29 witness: a call with an episode limit and break_on_terminal returned
\* after its second episode boundary.
C29_Witness ==
    /\ CallReturned /\ num_timesteps > 1 /\ max_timesteps_per_episode > 0
    /\ break_on_terminal /\ terminal
    /\ timesteps_executed = num_timesteps

\* C30: episode_rewards and episode_timesteps have the same length;
\* sample_times, sample_steps and sample_env_frames have the same length, grow
\* by one entry when a call returns and only then; get_workload_statistics
\* changes none of the five.
C30_HistoriesAligned ==
    /\ [](/\ Len(episode_rewards) = Len(episode_timesteps)
          /\ Len(sample_times) = Len(sample_steps)
          /\ Len(sample_env_frames) = Len(sample_steps)
          /\ Len(sample_steps) <= callsDone)
    /\ [][/\ Len(sample_steps') = Len(sample_steps) +
                (IF pc # "idle" /\ pc' = "idle" /\ callResult' = "ok" THEN 1 ELSE 0)
          /\ stats'.status \notin {"none", stats.status}
                => UNCHANGED <<episode_rewards, episode_timesteps, sample_times,
                               sample_steps, sample_env_frames>>]_vars

\* C30 witness: the statistics were reported after two returned calls that
\* recorded episodes.
C30_Witness ==
    /\ stats.status = "ok"
    /\ Len(sample_steps) > 1 /\ Len(sample_steps) = callsDone
    /\ Len(episode_rewards) > 1

\* C31: once a call of execute_and_get_timesteps has returned (which only a call
\* with num_timesteps > 0 does), the episode histories are non-empty, so
\* get_workload_statistics of the idle worker succeeds, its
\* final_episode_reward is the last entry of episode_rewards, and
\* min_episode_reward <= final_episode_reward <= max_episode_reward.
C31_StatisticsAfterCompletedCall ==
    sample_steps # <<>> =>
        /\ episode_rewards # <<>> /\ episode_timesteps # <<>>
        /\ stats.status \in {"none", "ok"}
        /\ pc = "idle" =>
              WorkloadStatistics(episode_rewards, episode_timesteps, self_episodes_executed,
                                 total_worker_steps, sample_steps, sample_times,
                                 sample_env_frames).status = "ok"
        /\ stats.status = "ok" =>
              /\ stats.final_episode_reward = Last(episode_rewards)
              /\ stats.episode_rewards = episode_rewards
              /\ stats.min_episode_reward <= stats.final_episode_reward
              /\ stats.final_episode_reward <= stats.max_episode_reward

\* C31 witness: the statistics were returned after a completed call, with
\* several episodes recorded whose rewards differ from first to last.
C31_Witness ==
    /\ sample_steps # <<>> /\ stats.status = "ok"
    /\ Len(episode_rewards) > 1
    /\ Head(episode_rewards) # Last(episode_rewards)
    /\ stats.min_episode_reward < stats.max_episode_reward

\* C32: with n_step_adjustment = n > 1 and fewer than n collected transitions
\* the batch is empty: batch_size is 0 and no list of it keeps a transition.
C32_ShortTrajectoryEmptyBatch ==
    (BatchDone /\ psInput.n > 1 /\ Len(psInput.rewards) < psInput.n) =>
        LET b == psOutput.sample_batch
        IN  /\ psOutput.batch_size = 0
            /\ b.states = <<>> /\ b.actions = <<>> /\ b.rewards = <<>>
            /\ b.terminals = <<>> /\ b.importance_weights = <<>>
            /\ psOutput.lists.next_states = <<>>

\* The dicts a and b have the same keys with the same values.
SameDict(a, b) == DOMAIN a = DOMAIN b /\ \A k \in DOMAIN a : a[k] = b[k]

\* C33: constructing agents (build_agent_from_config) and workers from an
\* agent_config and a worker_spec leaves both dicts as the caller filled them,
\* 'type' included, so that whenever the first construction succeeds, a
\* further one from the same dicts succeeds as well.
C33_ConfigReadOnly ==
    built # <<>> =>
        /\ SameDict(agent_config, passedConfig.agent_config)
        /\ SameDict(worker_spec, passedConfig.worker_spec)
        /\ built[1].status = "ok" => \A i \in 1..Len(built) : built[i].status = "ok"
====
